---- MODULE Spec2Model ----
(***************************************************************************)
(* configify: a generator of functional options for one struct type.       *)
(*                                                                         *)
(* Three state machines are modelled:                                      *)
(*   Spec      - Generator.generate run (twice) over one type-checked      *)
(*               package drawn from a bounded universe of struct types;    *)
(*   SpecMain  - main: flags, parsePackage, generate, format, write;       *)
(*   SpecApply - the generated New / Apply / With* code at run time,       *)
(*               with maps held by reference as in Go.                     *)
(* Go strings are TLA+ strings; s[a:b] is SubSeq(s, a+1, b).               *)
(***************************************************************************)
EXTENDS Integers, Sequences, FiniteSets, TLC

VARIABLES
    pc,        \* position of main / generate
    args,      \* flag.Args() after defaulting
    tags,      \* build tags split from -tags
    loaded,    \* what packages.Load returned: [err, n]
    pkg,       \* g.pkg
    todo,      \* entries of g.pkg.defs the range loop has not yet delivered
    cur,       \* the struct whose fields are being walked, or NoStruct
    i,         \* field index of the inner loop
    values,    \* values
    imports,   \* imports (a Go map used as a set)
    buf,       \* g.buf: the sequence of executed templates
    j,         \* index of the rendering loop over values
    run,       \* 1 for the first generation, 2 for the repeated one
    prevBuf,   \* g.buf of the first generation
    output,    \* the -output flag
    src,       \* what g.format() returned
    dir,       \* directory of the default output name
    written,   \* name and content handed to ioutil.WriteFile, or NotWritten
    heap,      \* run time: map storage by reference
    heap0,     \* run time: the maps as the caller built them
    cfg,       \* run time: the config record
    options,   \* run time: the variadic options of the call in progress
    k,         \* run time: index of the loop over options
    history,   \* run time: every option applied to cfg so far, in order
    pcA        \* run time: position of New / Apply

genVars  == <<pkg, todo, cur, i, values, imports, buf, j, run, prevBuf>>
mainVars == <<args, tags, loaded, output, src, dir, written>>
rtVars   == <<heap, heap0, cfg, options, k, history, pcA>>
vars     == <<pc, genVars, mainVars, rtVars>>

\* Largest number of fields of a generated-for struct.
MaxFields == 2
\* Largest number of options applied to one record.
MaxOpts == 3

Max(S) == CHOOSE m \in S : \A n \in S : n <= m

-----------------------------------------------------------------------------
(* go/types: the types a field can have, and their printed form.           *)

OwnPath  == "configify/example"
typeName == "config"

Basic(n)        == [k |-> "Basic", name |-> n]
Named(p, n, u)  == [k |-> "Named", pkg |-> p, name |-> n, under |-> u]
Pointer(e)      == [k |-> "Pointer", elem |-> e]
Slice(e)        == [k |-> "Slice", elem |-> e]
Array(n, e)     == [k |-> "Array", len |-> n, elem |-> e]
Map(key, e)     == [k |-> "Map", key |-> key, elem |-> e]
Chan(e)         == [k |-> "Chan", elem |-> e]
Signature(p, r) == [k |-> "Signature", params |-> p, results |-> r]
Interface       == [k |-> "Interface"]
Struct(fs)      == [k |-> "Struct", fields |-> fs]

\* field.Type().Underlying()
Underlying(t) == IF t.k = "Named" THEN t.under ELSE t

RECURSIVE TypeString(_, _)
RECURSIVE TupleString(_, _)
\* types.TypeString(t, types.RelativeTo(rel)): a named type of another
\* package is written <import path>.<name>.
TypeString(t, rel) ==
    CASE t.k = "Basic"     -> t.name
      [] t.k = "Named"     -> IF t.pkg = "" \/ t.pkg = rel
                              THEN t.name
                              ELSE t.pkg \o "." \o t.name
      [] t.k = "Pointer"   -> "*" \o TypeString(t.elem, rel)
      [] t.k = "Slice"     -> "[]" \o TypeString(t.elem, rel)
      [] t.k = "Array"     -> "[" \o t.len \o "]" \o TypeString(t.elem, rel)
      [] t.k = "Map"       -> "map[" \o TypeString(t.key, rel) \o "]"
                                     \o TypeString(t.elem, rel)
      [] t.k = "Chan"      -> "chan " \o TypeString(t.elem, rel)
      [] t.k = "Signature" -> "func(" \o TupleString(t.params, rel) \o ")"
                              \o (IF t.results = <<>> THEN ""
                                  ELSE " " \o TupleString(t.results, rel))
      [] t.k = "Interface" -> "interface{}"
      [] t.k = "Struct"    -> "struct{}"
TupleString(ts, rel) ==
    IF ts = <<>> THEN ""
    ELSE IF Len(ts) = 1 THEN TypeString(ts[1], rel)
    ELSE TypeString(ts[1], rel) \o ", " \o TupleString(Tail(ts), rel)

-----------------------------------------------------------------------------
(* strings                                                                 *)

\* strings.LastIndex(s, c) for a one-byte c: 0-based, -1 when absent.
LastIndex(s, c) ==
    LET at == {n \in 1..Len(s) : SubSeq(s, n, n) = c}
    IN  IF at = {} THEN -1 ELSE Max(at) - 1

\* s[n:]
SliceFrom(s, n) == SubSeq(s, n + 1, Len(s))
\* s[0:n]
SliceTo(s, n) == SubSeq(s, 1, n)

UpperLetters == "ABCDEFGHIJKLMNOPQRSTUVWXYZ"
LowerLetters == "abcdefghijklmnopqrstuvwxyz"

ToLower(c) ==
    LET at == {n \in 1..26 : SubSeq(UpperLetters, n, n) = c}
    IN  IF at = {} THEN c ELSE LET n == Max(at) IN SubSeq(LowerLetters, n, n)
ToUpper(c) ==
    LET at == {n \in 1..26 : SubSeq(LowerLetters, n, n) = c}
    IN  IF at = {} THEN c ELSE LET n == Max(at) IN SubSeq(UpperLetters, n, n)

lowerName(name) == ToLower(SubSeq(name, 1, 1)) \o SliceFrom(name, 1)
upperName(name) == ToUpper(SubSeq(name, 1, 1)) \o SliceFrom(name, 1)

-----------------------------------------------------------------------------
(* Generator.generate: what one pass of the field loop computes            *)

\* the templates registered in temps; mapType has none
temps == {"baseType", "pointerType", "sliceType", "interfaceType"}

\* the type switch over field.Type().Underlying()
ValueTypeOf(u) ==
    CASE u.k = "Basic"     -> "baseType"
      [] u.k = "Array"     -> "baseType"
      [] u.k = "Slice"     -> "sliceType"
      [] u.k = "Map"       -> "mapType"
      [] u.k = "Signature" -> "baseType"
      [] u.k = "Pointer"   -> "pointerType"
      [] u.k = "Interface" -> "interfaceType"
      [] u.k = "Struct"    -> "baseType"
      [] OTHER             -> "unsupported"

\* a field loop that lacks the embedded test
EmbeddedNever(f) == FALSE
\* field.Embedded()
Embedded(f) == f.embedded

\* typeString as first computed
FieldTypeString(f) == TypeString(f.typ, OwnPath)

\* imp after the LastIndex(".") step
ImpOf(ts) ==
    LET indx == LastIndex(ts, ".")
    IN  IF indx > 0 THEN SliceTo(ts, indx) ELSE ""

\* typeString after the LastIndex("/") step
CutPath(ts) ==
    LET indx == LastIndex(ts, "/")
    IN  IF indx > 0 THEN SliceFrom(ts, indx + 1) ELSE ts

\* imp as it reaches the imports map
FieldImp(f) ==
    LET imp == ImpOf(FieldTypeString(f))
    IN  IF Underlying(f.typ).k = "Pointer" /\ Len(imp) > 0
        THEN SliceFrom(imp, 1)
        ELSE imp

\* typeString as it reaches Value.originalType
FieldOrigType(f) ==
    LET ts == CutPath(FieldTypeString(f))
    IN  IF Underlying(f.typ).k = "Pointer" THEN SliceFrom(ts, 1) ELSE ts

FieldValue(f) ==
    [originalName |-> f.name,
     originalType |-> FieldOrigType(f),
     valueType    |-> ValueTypeOf(Underlying(f.typ))]

\* temp.Execute of a per-field template
Fragment(v) ==
    [tmpl      |-> v.valueType,
     origName  |-> v.originalName,
     nameLower |-> lowerName(v.originalName),
     nameUpper |-> upperName(v.originalName),
     origType  |-> v.originalType]

\* tempHeader.Execute
Header(p, importList) ==
    [tmpl |-> "header", package |-> p.name, cfgType |-> typeName,
     imports |-> importList]

\* the orders in which ranging over a Go map can deliver its keys
Orders(S) ==
    {s \in [1..Cardinality(S) -> S] : \A a, b \in 1..Cardinality(S) :
                                         a # b => s[a] # s[b]}

-----------------------------------------------------------------------------
(* the packages the loader can hand over                                   *)

T_string   == Basic("string")
T_int      == Basic("int")
T_error    == Named("", "error", Interface)
T_MyType   == Named(OwnPath, "MyType", T_string)
T_Reader   == Named("io", "Reader", Interface)
T_Buffer   == Named("bytes", "Buffer", Struct(<<>>))
T_WaitGrp  == Named("sync", "WaitGroup", Struct(<<>>))
T_Frame    == Named("github.com/pkg/errors", "Frame", Basic("uintptr"))
T_Ptr      == Named(OwnPath, "Ptr", Pointer(T_int))

\* field types of the bounded universe
FieldTypes ==
    {T_string, T_MyType, Slice(T_int), Map(T_string, T_string),
     Pointer(T_string), T_Reader, Pointer(T_WaitGrp), T_Frame,
     Pointer(T_Frame), Slice(T_Reader), Chan(T_int), T_Ptr}

FieldNames == <<"color", "Height", "maps", "point">>

FieldShapes ==
    {[typ |-> t, embedded |-> FALSE] : t \in FieldTypes}
        \cup {[typ |-> T_MyType, embedded |-> TRUE]}

\* types.Var of a struct field: an embedded field is named after its type
Field(n, typ, emb) == [name |-> n, typ |-> typ, embedded |-> emb]

MkFields(shapes) ==
    [n \in 1..Len(shapes) |->
        Field(IF shapes[n].embedded THEN shapes[n].typ.name ELSE FieldNames[n],
              shapes[n].typ, shapes[n].embedded)]

Structs ==
    {MkFields(s) : s \in UNION {[1..n -> FieldShapes] : n \in 0..MaxFields}}

\* pkg.TypesInfo.Defs: identifier (told apart by its position) -> object type.
\* Besides the target's own declaration a package may define the same name
\* again: a field or variable of the target type, or a method.
Def(pos, ident, typ) == [pos |-> pos, ident |-> ident, typ |-> typ]

DefsOf(fields, extra) ==
    LET target == Named(OwnPath, typeName, Struct(fields))
        other  == {Def(2, "MyType", T_MyType)}
        decl   == {Def(1, typeName, target)}
    IN  CASE extra = "absent" -> other
          [] extra = "plain"  -> other \cup decl
          [] extra = "var"    -> other \cup decl \cup {Def(3, typeName, target)}
          [] extra = "func"   -> other \cup decl
                                   \cup {Def(3, typeName, Signature(<<>>, <<>>))}

\* addPackage
Package(fields, extra) ==
    [name |-> "example", defs |-> DefsOf(fields, extra)]

Packages ==
    {Package(fs, x) : fs \in Structs, x \in {"absent", "plain", "var", "func"}}

\* the config struct of example/example.go
ExampleFields ==
    <<Field("myType", T_MyType, FALSE),
      Field("color", T_string, FALSE),
      Field("Height", T_int, FALSE),
      Field("array", Array("3", T_int), FALSE),
      Field("slice", Slice(T_int), FALSE),
      Field("maps", Map(T_string, T_string), FALSE),
      Field("funcs", Signature(<<T_int>>, <<T_error>>), FALSE),
      Field("point", Pointer(T_string), FALSE),
      Field("inter", T_Reader, FALSE),
      Field("MyType", T_MyType, TRUE)>>

\* the config struct of the second example
ExampleFields2 ==
    ExampleFields \o
    <<Field("buf", T_Buffer, FALSE),
      Field("buf2", Pointer(T_WaitGrp), FALSE),
      Field("frame", T_Frame, FALSE)>>

ExamplePackages ==
    {Package(ExampleFields, "plain"), Package(ExampleFields2, "plain")}

-----------------------------------------------------------------------------
(* Generator.generate, one step per loop iteration                         *)

NoStruct   == [k |-> "None"]
NoPackage  == [name |-> "", defs |-> {}]
NotWritten == [name |-> "", src |-> <<>>]
NotLoaded  == [called |-> FALSE, err |-> FALSE, n |-> 0]
LoadedOne  == [called |-> TRUE, err |-> FALSE, n |-> 1]
NoSource   == [text |-> <<>>, gofmt |-> FALSE]

\* v.Type().(*types.Named).Underlying().(*types.Struct) does not panic
IsNamedStruct(t) == t.k = "Named" /\ t.under.k = "Struct"

\* range g.pkg.defs delivers an identifier that is not typeName
RangeOther ==
    /\ pc = "collect" /\ cur = NoStruct
    /\ \E d \in todo :
        /\ d.ident # typeName
        /\ todo' = todo \ {d}
    /\ UNCHANGED <<pc, pkg, cur, i, values, imports, buf, j, run, prevBuf>>
    /\ UNCHANGED <<mainVars, rtVars>>

\* ... an identifier typeName whose object is no named struct: the
\* unchecked type assertions panic
RangePanic ==
    /\ pc = "collect" /\ cur = NoStruct
    /\ \E d \in todo :
        /\ d.ident = typeName
        /\ ~IsNamedStruct(d.typ)
        /\ todo' = todo \ {d}
    /\ pc' = "panic"
    /\ UNCHANGED <<pkg, cur, i, values, imports, buf, j, run, prevBuf>>
    /\ UNCHANGED <<mainVars, rtVars>>

\* ... an identifier typeName of a named struct type: walk its fields
RangeStruct ==
    /\ pc = "collect" /\ cur = NoStruct
    /\ \E d \in todo :
        /\ d.ident = typeName
        /\ IsNamedStruct(d.typ)
        /\ todo' = todo \ {d}
        /\ cur' = d.typ.under
    /\ i' = 0
    /\ UNCHANGED <<pc, pkg, values, imports, buf, j, run, prevBuf>>
    /\ UNCHANGED <<mainVars, rtVars>>

InFieldLoop == pc = "collect" /\ cur # NoStruct /\ i < Len(cur.fields)
\* struc.Field(i)
CurField == cur.fields[i + 1]

\* if field.Embedded() { continue }
FieldEmbedded ==
    /\ InFieldLoop
    /\ Embedded(CurField)
    /\ i' = i + 1
    /\ UNCHANGED <<pc, pkg, todo, cur, values, imports, buf, j, run, prevBuf>>
    /\ UNCHANGED <<mainVars, rtVars>>

\* default: print the field and continue
FieldUnsupported ==
    /\ InFieldLoop
    /\ ~Embedded(CurField)
    /\ ValueTypeOf(Underlying(CurField.typ)) = "unsupported"
    /\ i' = i + 1
    /\ UNCHANGED <<pc, pkg, todo, cur, values, imports, buf, j, run, prevBuf>>
    /\ UNCHANGED <<mainVars, rtVars>>

\* a classified field: record its import and its Value
FieldCollect ==
    /\ InFieldLoop
    /\ ~Embedded(CurField)
    /\ ValueTypeOf(Underlying(CurField.typ)) # "unsupported"
    /\ imports' = IF Len(FieldImp(CurField)) > 0
                  THEN imports \cup {FieldImp(CurField)}
                  ELSE imports
    /\ values' = Append(values, FieldValue(CurField))
    /\ i' = i + 1
    /\ UNCHANGED <<pc, pkg, todo, cur, buf, j, run, prevBuf>>
    /\ UNCHANGED <<mainVars, rtVars>>

\* i == struc.NumFields()
FieldsDone ==
    /\ pc = "collect" /\ cur # NoStruct /\ i = Len(cur.fields)
    /\ cur' = NoStruct
    /\ UNCHANGED <<pc, pkg, todo, i, values, imports, buf, j, run, prevBuf>>
    /\ UNCHANGED <<mainVars, rtVars>>

\* importList is filled by ranging over the imports map, then the header
\* template is executed
RenderHeader ==
    /\ pc = "collect" /\ cur = NoStruct /\ todo = {}
    /\ \E importList \in Orders(imports) :
        buf' = Append(buf, Header(pkg, importList))
    /\ pc' = "render"
    /\ j' = 1
    /\ UNCHANGED <<pkg, todo, cur, i, values, imports, run, prevBuf>>
    /\ UNCHANGED <<mainVars, rtVars>>

\* temps[value.valueType] is there: execute it
RenderFragment ==
    /\ pc = "render" /\ j <= Len(values)
    /\ values[j].valueType \in temps
    /\ buf' = Append(buf, Fragment(values[j]))
    /\ j' = j + 1
    /\ UNCHANGED <<pc, pkg, todo, cur, i, values, imports, run, prevBuf>>
    /\ UNCHANGED <<mainVars, rtVars>>

\* if !ok { continue }
RenderNoTemplate ==
    /\ pc = "render" /\ j <= Len(values)
    /\ values[j].valueType \notin temps
    /\ j' = j + 1
    /\ UNCHANGED <<pc, pkg, todo, cur, i, values, imports, buf, run, prevBuf>>
    /\ UNCHANGED <<mainVars, rtVars>>

\* generate returns
RenderDone ==
    /\ pc = "render" /\ j > Len(values)
    /\ pc' = "generated"
    /\ UNCHANGED <<pkg, todo, cur, i, values, imports, buf, j, run, prevBuf>>
    /\ UNCHANGED <<mainVars, rtVars>>

\* the tool is run again on the unchanged package, with a fresh Generator
Regenerate ==
    /\ pc = "generated" /\ run = 1
    /\ prevBuf' = buf
    /\ run' = 2
    /\ pc' = "collect"
    /\ todo' = pkg.defs
    /\ cur' = NoStruct
    /\ i' = 0
    /\ values' = <<>>
    /\ imports' = {}
    /\ buf' = <<>>
    /\ j' = 0
    /\ UNCHANGED <<pkg>>
    /\ UNCHANGED <<mainVars, rtVars>>

RtIdle ==
    /\ heap = <<>> /\ heap0 = <<>> /\ cfg = <<>> /\ options = <<>>
    /\ k = 0 /\ history = <<>> /\ pcA = "off"

GenFresh ==
    /\ cur = NoStruct /\ i = 0 /\ values = <<>> /\ imports = {}
    /\ buf = <<>> /\ j = 0 /\ run = 1 /\ prevBuf = <<>>

\* a Generator right after parsePackage
Init ==
    /\ pc = "collect"
    /\ pkg \in Packages
    /\ todo = pkg.defs
    /\ GenFresh
    /\ args = <<".">> /\ tags = <<>>
    /\ loaded = LoadedOne
    /\ output = "" /\ src = NoSource /\ dir = ""
    /\ written = NotWritten
    /\ RtIdle

Next ==
    \/ RangeOther \/ RangePanic \/ RangeStruct
    \/ FieldEmbedded \/ FieldUnsupported \/ FieldCollect \/ FieldsDone
    \/ RenderHeader \/ RenderFragment \/ RenderNoTemplate \/ RenderDone
    \/ Regenerate

Spec == Init /\ [][Next]_vars

-----------------------------------------------------------------------------
(* main                                                                    *)

\* os.Stat in the working directory of the run
FileKind(name) ==
    CASE name \in {".", "example"} -> "dir"
      [] name \in {"example/example.go", "example/other.go"} -> "file"
      [] OTHER -> "missing"

ArgChoices ==
    {<<>>, <<"example">>, <<"example/example.go">>,
     <<"example/example.go", "example/other.go">>, <<"nowhere">>}
TagChoices == {"", "integration"}
OutputChoices == {"", "opts.go"}

\* strings.Split(*buildTags, ",") of a -tags value without a comma
SplitTags(t) == IF Len(t) > 0 THEN <<t>> ELSE <<>>

\* filepath.Dir
Dir(path) ==
    LET n == LastIndex(path, "/")
    IN  IF n < 0 THEN "." ELSE SliceTo(path, n)
\* filepath.Join
Join(d, name) == IF d = "." THEN name ELSE d \o "/" \o name

RECURSIVE ToLowerString(_)
\* strings.ToLower
ToLowerString(s) ==
    IF Len(s) = 0 THEN ""
    ELSE ToLower(SubSeq(s, 1, 1)) \o ToLowerString(SliceFrom(s, 1))

\* packages the loader hands to main: the two examples of the repository
\* and the packages of the universe with at most one field
LoadablePackages ==
    ExamplePackages \cup
    {Package(fs, x) : fs \in {f \in Structs : Len(f) <= 1},
                      x \in {"absent", "plain", "var", "func"}}

\* len(args) == 1 && isDirectory(args[0])
SingleDirectory(a) == Len(a) = 1 /\ FileKind(a[1]) = "dir"

\* a main that never refuses tags
TagsFatalNever(a, t) == FALSE
\* the else branch of the directory test with tags given: log.Fatal
TagsFatal(a, t) == ~SingleDirectory(a) /\ Len(t) # 0

\* -type is missing: usage and os.Exit(2)
Usage ==
    /\ pc = "start"
    /\ pc' = "exit2"
    /\ UNCHANGED <<genVars, mainVars, rtVars>>

\* flag.Parse with a -type, the tags split, the arguments defaulted
ParseFlags ==
    /\ pc = "start"
    /\ \E t \in TagChoices, a \in ArgChoices, o \in OutputChoices :
        /\ tags' = SplitTags(t)
        /\ args' = IF Len(a) = 0 THEN <<".">> ELSE a
        /\ output' = o
    /\ pc' = "parse"
    /\ UNCHANGED <<genVars, loaded, src, dir, written, rtVars>>

\* parsePackage: packages.Load returns an error
LoadFails ==
    /\ pc = "parse"
    /\ loaded' = [called |-> TRUE, err |-> TRUE, n |-> 0]
    /\ pc' = "fatal"
    /\ UNCHANGED <<genVars, args, tags, output, src, dir, written, rtVars>>

\* parsePackage: len(pkgs) != 1
LoadWrongCount ==
    /\ pc = "parse"
    /\ \E n \in {0, 2} : loaded' = [called |-> TRUE, err |-> FALSE, n |-> n]
    /\ pc' = "fatal"
    /\ UNCHANGED <<genVars, args, tags, output, src, dir, written, rtVars>>

\* parsePackage: one package, addPackage; generate begins
LoadOne ==
    /\ pc = "parse"
    /\ loaded' = LoadedOne
    /\ \E p \in LoadablePackages :
        /\ pkg' = p
        /\ todo' = p.defs
    /\ pc' = "collect"
    /\ UNCHANGED <<cur, i, values, imports, buf, j, run, prevBuf>>
    /\ UNCHANGED <<args, tags, output, src, dir, written, rtVars>>

\* src := g.format(): the gofmt'd text, or the raw text with a warning
Format ==
    /\ pc = "generated"
    /\ \E ok \in BOOLEAN : src' = [text |-> buf, gofmt |-> ok]
    /\ pc' = "formatted"
    /\ UNCHANGED <<genVars, args, tags, loaded, output, dir, written, rtVars>>

\* isDirectory: os.Stat fails, log.Fatal
StatFails ==
    /\ pc = "formatted"
    /\ Len(args) = 1 /\ FileKind(args[1]) = "missing"
    /\ pc' = "fatal"
    /\ UNCHANGED <<genVars, mainVars, rtVars>>

\* the single argument is a directory
DirOfDirectory ==
    /\ pc = "formatted"
    /\ SingleDirectory(args)
    /\ dir' = args[1]
    /\ pc' = "write"
    /\ UNCHANGED <<genVars, args, tags, loaded, output, src, written, rtVars>>

\* files were named and tags given
TagsWithFiles ==
    /\ pc = "formatted"
    /\ ~(Len(args) = 1 /\ FileKind(args[1]) = "missing")
    /\ TagsFatal(args, tags)
    /\ pc' = "fatal"
    /\ UNCHANGED <<genVars, mainVars, rtVars>>

\* files were named, no tags
DirOfFile ==
    /\ pc = "formatted"
    /\ ~(Len(args) = 1 /\ FileKind(args[1]) = "missing")
    /\ ~SingleDirectory(args)
    /\ ~TagsFatal(args, tags)
    /\ dir' = Dir(args[1])
    /\ pc' = "write"
    /\ UNCHANGED <<genVars, args, tags, loaded, output, src, written, rtVars>>

outputName ==
    IF output = ""
    THEN Join(dir, ToLowerString(typeName \o "_string.go"))
    ELSE output

\* ioutil.WriteFile succeeds
WriteFile ==
    /\ pc = "write"
    /\ written' = [name |-> outputName, src |-> src]
    /\ pc' = "done"
    /\ UNCHANGED <<genVars, args, tags, loaded, output, src, dir, rtVars>>

\* ioutil.WriteFile fails: log.Fatalf
WriteFails ==
    /\ pc = "write"
    /\ pc' = "fatal"
    /\ UNCHANGED <<genVars, mainVars, rtVars>>

InitMain ==
    /\ pc = "start"
    /\ pkg = NoPackage
    /\ todo = {}
    /\ GenFresh
    /\ args = <<>> /\ tags = <<>>
    /\ loaded = NotLoaded
    /\ output = "" /\ src = NoSource /\ dir = ""
    /\ written = NotWritten
    /\ RtIdle

NextMain ==
    \/ Usage \/ ParseFlags
    \/ LoadFails \/ LoadWrongCount \/ LoadOne
    \/ RangeOther \/ RangePanic \/ RangeStruct
    \/ FieldEmbedded \/ FieldUnsupported \/ FieldCollect \/ FieldsDone
    \/ RenderHeader \/ RenderFragment \/ RenderNoTemplate \/ RenderDone
    \/ Format
    \/ StatFails \/ DirOfDirectory \/ TagsWithFiles \/ DirOfFile
    \/ WriteFile \/ WriteFails

SpecMain == InitMain /\ [][NextMain]_vars

-----------------------------------------------------------------------------
(* the generated code at run time                                          *)
(*                                                                         *)
(* config has the scalar fields color and height of the README, a map      *)
(* field maps, and a slice, a pointer and an interface field.  A Go map is *)
(* a reference: heap holds the storage, options and the record hold the    *)
(* reference.                                                              *)

Refs == {"m1", "m2"}
Nil  == "nil"
X1   == [key \in {"x"} |-> 1]
Y2   == [key \in {"y"} |-> 2]
X2Y2 == [key \in {"x", "y"} |-> 2]
\* the maps a caller builds before handing them to WithMaps
MapChoices == {X1, Y2, X2Y2}

NilPtr     == [nil |-> TRUE, val |-> ""]
PtrTo(v)   == [nil |-> FALSE, val |-> v]

\* cfg := &config{}
ZeroConfig ==
    [color |-> "", height |-> 0, maps |-> Nil, slice |-> <<>>,
     point |-> NilPtr, inter |-> Nil]

\* func WithColor(s string) Option { return colorOption(s) }, and alike
WithColor(v)  == [field |-> "color", val |-> v]
WithHeight(v) == [field |-> "height", val |-> v]
WithSlice(v)  == [field |-> "slice", val |-> v]
WithPoint(v)  == [field |-> "point", val |-> v]
WithInter(v)  == [field |-> "inter", val |-> v]
\* func WithMaps(m map...) Option { return mapsOption(m) }: the same map
WithMaps(r)   == [field |-> "maps", ref |-> r]

\* the options a caller can build
OptionPool ==
    <<WithColor("red"), WithColor("blue"), WithHeight(3),
      WithSlice(<<1>>), WithSlice(<<2, 3>>),
      WithPoint("a"), WithPoint("b"),
      WithInter("os.Stdin"),
      WithMaps("m1"), WithMaps("m2")>>

\* the argument lists of at most n options, each option by its place in
\* OptionPool
OptionPicks(n) == UNION {[1..m -> 1..Len(OptionPool)] : m \in 0..n}
OptionsOf(pick) == [m \in 1..Len(pick) |-> OptionPool[pick[m]]]

\* an Apply that assigns only a field still at its zero value
ApplyBaseKeepFirst(o, c) ==
    IF c[o.field] = ZeroConfig[o.field] THEN [c EXCEPT ![o.field] = o.val]
    ELSE c
\* func (o colorOption) Apply(c *config) { c.color = string(o) }
ApplyBase(o, c) == [c EXCEPT ![o.field] = o.val]

\* slice and interface options: the payload replaces the field
ApplyWhole(o, c) == [c EXCEPT ![o.field] = o.val]

\* pointer option: the field points to a private copy of the payload
ApplyPointer(o, c) == [c EXCEPT ![o.field] = PtrTo(o.val)]

\* for k, v := range o { c.maps[k] = v }
Merge(into, from) ==
    [key \in DOMAIN into \cup DOMAIN from |->
        IF key \in DOMAIN from THEN from[key] ELSE into[key]]

\* mapsOption.Apply, first statement: if c.maps == nil { c.maps = map(o) }
ApplyMapField(o, c) ==
    IF c.maps = Nil THEN [c EXCEPT !.maps = o.ref] ELSE c

\* mapsOption.Apply, the loop, on the storage c.maps refers to
ApplyMapHeap(o, c, h) ==
    LET target == ApplyMapField(o, c).maps
    IN  [h EXCEPT ![target] = Merge(h[target], h[o.ref])]

\* option.Apply(c): dispatch on the option's type
OptionApplyCfg(o, c) ==
    CASE o.field \in {"color", "height"} -> ApplyBase(o, c)
      [] o.field \in {"slice", "inter"}  -> ApplyWhole(o, c)
      [] o.field = "point"               -> ApplyPointer(o, c)
      [] o.field = "maps"                -> ApplyMapField(o, c)
OptionApplyHeap(o, c, h) ==
    IF o.field = "maps" THEN ApplyMapHeap(o, c, h) ELSE h

GenOff ==
    /\ pc = "off" /\ pkg = NoPackage /\ todo = {} /\ GenFresh
    /\ args = <<>> /\ tags = <<>> /\ loaded = NotLoaded
    /\ output = "" /\ src = NoSource /\ dir = "" /\ written = NotWritten

\* func New(options ...Option) *config: cfg := &config{}; cfg.Apply(options...)
New ==
    /\ pcA = "idle"
    /\ \E pick \in OptionPicks(MaxOpts) : options' = OptionsOf(pick)
    /\ cfg' = ZeroConfig
    /\ history' = <<>>
    /\ k' = 1
    /\ pcA' = "apply"
    /\ UNCHANGED <<pc, genVars, mainVars, heap, heap0>>

\* a later c.Apply(options...) on the record New returned
ApplyAgain ==
    /\ pcA = "returned"
    /\ Len(history) < MaxOpts
    /\ \E pick \in OptionPicks(MaxOpts - Len(history)) :
        /\ Len(pick) > 0
        /\ options' = OptionsOf(pick)
    /\ k' = 1
    /\ pcA' = "apply"
    /\ UNCHANGED <<pc, genVars, mainVars, heap, heap0, cfg, history>>

\* for _, option := range options { option.Apply(c) }
ApplyOption ==
    /\ pcA = "apply" /\ k <= Len(options)
    /\ cfg' = OptionApplyCfg(options[k], cfg)
    /\ heap' = OptionApplyHeap(options[k], cfg, heap)
    /\ history' = Append(history, options[k])
    /\ k' = k + 1
    /\ UNCHANGED <<pc, genVars, mainVars, heap0, options, pcA>>

\* the loop is over: Apply (and New) return
ApplyReturn ==
    /\ pcA = "apply" /\ k > Len(options)
    /\ pcA' = "returned"
    /\ UNCHANGED <<pc, genVars, mainVars, heap, heap0, cfg, options, k, history>>

\* the caller has built its maps; no record exists yet
InitApply ==
    /\ GenOff
    /\ heap \in [Refs -> MapChoices]
    /\ heap0 = heap
    /\ cfg = ZeroConfig
    /\ options = <<>>
    /\ k = 0
    /\ history = <<>>
    /\ pcA = "idle"

NextApply == New \/ ApplyAgain \/ ApplyOption \/ ApplyReturn

SpecApply == InitApply /\ [][NextApply]_vars

-----------------------------------------------------------------------------
(* what the claims speak of                                                *)

\* the declaration of the target struct, when the package has one
TargetDecls == {d \in pkg.defs : d.pos = 1 /\ d.ident = typeName}
TargetFields ==
    IF TargetDecls = {} THEN <<>>
    ELSE (CHOOSE d \in TargetDecls : TRUE).typ.under.fields

\* the shapes section 4.1 of the design classifies
ClassifiedKinds ==
    {"Basic", "Array", "Signature", "Struct", "Pointer", "Slice", "Map",
     "Interface"}
IsClassified(f) == ~f.embedded /\ Underlying(f.typ).k \in ClassifiedKinds

IsFragment(e) == e.tmpl # "header"
Fragments(b) == SelectSeq(b, IsFragment)
FragmentsFor(b, name) ==
    {m \in 1..Len(b) : IsFragment(b[m]) /\ b[m].origName = name}

\* position of a (non-embedded) field in the target struct
FieldIndex(name) ==
    CHOOSE n \in 1..Len(TargetFields) :
        ~TargetFields[n].embedded /\ TargetFields[n].name = name
FieldNamed(name) == TargetFields[FieldIndex(name)]

\* C1: every classified field (scalar, pointer, slice, map, interface) of the
\* target struct has exactly one per-field fragment in the generated text.
C1_OneFragmentPerClassifiedField ==
    pc = "generated" =>
        \A n \in 1..Len(TargetFields) :
            IsClassified(TargetFields[n]) =>
                Cardinality(FragmentsFor(buf, TargetFields[n].name)) = 1

\* C4: the header is rendered once and comes first, and the fragments after
\* it follow the declaration order of their fields, no field twice.
C4_HeaderFirstFieldsInOrder ==
    pc = "generated" =>
        /\ Len(buf) >= 1
        /\ buf[1].tmpl = "header"
        /\ \A m \in 2..Len(buf) : IsFragment(buf[m])
        /\ \A m \in 2..(Len(buf) - 1) :
              FieldIndex(buf[m].origName) < FieldIndex(buf[m + 1].origName)

\* C5: a second generation from the unchanged package produces the same
\* text as the first, import lines included.
C5_RegenerationIsIdentical ==
    (run = 2 /\ pc = "generated") => buf = prevBuf

\* the definitions named typeName that generate walks as structs
Visits == Cardinality({d \in pkg.defs : d.ident = typeName
                                         /\ IsNamedStruct(d.typ)})
IsKept(f) == IsClassified(f)
Kept(fs) == SelectSeq(fs, IsKept)
\* the fragments of a struct none of whose fields is skipped
FragmentsOfAll(fs) ==
    LET HasTemplate(v) == v.valueType \in temps
        vs == SelectSeq([n \in 1..Len(fs) |-> FieldValue(fs[n])], HasTemplate)
    IN  [n \in 1..Len(vs) |-> Fragment(vs[n])]
RECURSIVE Times(_, _)
Times(s, n) == IF n = 0 THEN <<>> ELSE s \o Times(s, n - 1)

\* C6: embedded fields and fields of an unsupported shape are skipped
\* without aborting: the only abort is the type assertion on a definition,
\* and the fragments generated are those of the struct with the skipped
\* fields removed.
C6_SkippingIsLocal ==
    /\ pc = "panic" =>
          \E d \in pkg.defs : d.ident = typeName /\ ~IsNamedStruct(d.typ)
    /\ InFieldLoop => pc = "collect"
    /\ pc = "generated" =>
          Fragments(buf) = Times(FragmentsOfAll(Kept(TargetFields)), Visits)

\* a struct with a skipped field and a field that got its fragment
C6_Witness ==
    /\ pc = "generated"
    /\ \E n \in 1..Len(TargetFields) : ~IsKept(TargetFields[n])
    /\ \E n \in 1..Len(TargetFields) : Underlying(TargetFields[n].typ).k = "Chan"
    /\ Len(Fragments(buf)) >= 1

\* the text of the type a pointer field points to, in full or with the
\* import path shortened to its last element as for the other shapes
PointeeTexts(t) ==
    LET text == TypeString(Underlying(t).elem, OwnPath)
    IN  {text, CutPath(text)}

\* C8: the type text recorded for a pointer field is the pointee's type text.
C8_PointerFieldsRecordPointeeText ==
    \A n \in 1..Len(values) :
        LET f == FieldNamed(values[n].originalName)
        IN  Underlying(f.typ).k = "Pointer" =>
                values[n].originalType \in PointeeTexts(f.typ)

RECURSIVE PkgsOf(_)
RECURSIVE PkgsOfTuple(_)
\* import paths of the packages, other than the target's, a type refers to
PkgsOf(t) ==
    CASE t.k = "Named" -> IF t.pkg \in {"", OwnPath} THEN {} ELSE {t.pkg}
      [] t.k \in {"Pointer", "Slice", "Array", "Chan"} -> PkgsOf(t.elem)
      [] t.k = "Map" -> PkgsOf(t.key) \cup PkgsOf(t.elem)
      [] t.k = "Signature" -> PkgsOfTuple(t.params) \cup PkgsOfTuple(t.results)
      [] OTHER -> {}
PkgsOfTuple(ts) ==
    IF ts = <<>> THEN {} ELSE PkgsOf(Head(ts)) \cup PkgsOfTuple(Tail(ts))

ReferencedPkgs ==
    UNION {PkgsOf(TargetFields[n].typ) :
              n \in {m \in 1..Len(TargetFields) : IsClassified(TargetFields[m])}}

\* C9: every import handed to the header is the path of a package a
\* classified field refers to, and none is handed over twice.
C9_ImportsArePackagePaths ==
    pc \in {"render", "generated"} =>
        LET list == buf[1].imports
        IN  /\ \A n \in 1..Len(list) : list[n] \in ReferencedPkgs
            /\ \A a, b \in 1..Len(list) : a # b => list[a] # list[b]

\* the conditions section 7 of the design calls fatal
FatalCondition ==
    \/ loaded.called /\ loaded.err
    \/ loaded.called /\ loaded.n # 1
    \/ Len(tags) # 0 /\ ~SingleDirectory(args)

\* C7: in a run with a failed load, a package count other than one, or tags
\* given while the arguments are not a single directory, the write step is
\* never reached and nothing is written; a failed load or a wrong package
\* count stops the run at once, and a stopped run takes no further step.
C7_FatalRunsWriteNothing ==
    /\ (pc # "start" /\ FatalCondition) =>
          /\ written = NotWritten
          /\ pc \notin {"write", "done"}
    /\ (loaded.called /\ (loaded.err \/ loaded.n # 1)) => pc = "fatal"
    /\ pc = "fatal" => ~ENABLED NextMain

\* generation ran to its end, and the tags were then found fatal
C7_Witness ==
    /\ pc = "fatal"
    /\ Len(tags) # 0 /\ Len(args) = 2
    /\ Len(src.text) > 1
    /\ written = NotWritten

NonMapFields == {"color", "height", "slice", "point", "inter"}

\* the options of a sequence that are for field f
OptionsFor(h, f) == {n \in 1..Len(h) : h[n].field = f}

\* the value a non-map field carries: for the pointer field what it points to
Carried(c, f) == IF f = "point" THEN c[f].val ELSE c[f]

\* C3: after any sequence of options, a non-map field holds the payload of
\* the last option for it, applied in call order, and its zero value when
\* no option was for it.
C3_LastOptionWins ==
    \A f \in NonMapFields :
        IF OptionsFor(history, f) = {}
        THEN cfg[f] = ZeroConfig[f]
        ELSE /\ Carried(cfg, f) = history[Max(OptionsFor(history, f))].val
             /\ f = "point" => ~cfg[f].nil

\* two options with different payloads for color were applied, none for height
C3_Witness ==
    /\ pcA = "returned"
    /\ \E a, b \in OptionsFor(history, "color") :
          a < b /\ history[a].val # history[b].val
    /\ OptionsFor(history, "height") = {}
    /\ OptionsFor(history, "point") # {}

RECURSIVE MergeAll(_)
\* the payloads of the map options of a sequence, as the caller built them,
\* merged in order: a later value for a key replaces an earlier one
MergeAll(h) ==
    IF h = <<>> THEN <<>>
    ELSE LET before == MergeAll(SubSeq(h, 1, Len(h) - 1))
             last   == h[Len(h)]
         IN  IF last.field = "maps" THEN Merge(before, heap0[last.ref])
             ELSE before

\* C2: after a sequence of map options on a record whose map field was
\* unset, the field holds the union of the payloads, the last option that
\* has a key deciding its value.
C2_MapOptionsMerge ==
    (pcA = "returned" /\ OptionsFor(history, "maps") # {}) =>
        /\ cfg.maps # Nil
        /\ heap[cfg.maps] = MergeAll(history)

\* C10: the payload map of an option that was applied is never changed by
\* applying further options to the record.
C10_PayloadsAreNotChanged ==
    \A n \in OptionsFor(history, "maps") :
        heap[history[n].ref] = heap0[history[n].ref]

====
